---- MODULE Spec2Model ----
(***************************************************************************)
(* IP address lifecycle of the api-server: pkg/repository/ip.go           *)
(* (ipRepository: Get, Create, Update, Delete, List, AllocateSpecificIP,  *)
(* AllocateRandomIP, ConvertToProto) and the admin List handler of        *)
(* pkg/service/ip/admin/ip-service.go.                                    *)
(*                                                                         *)
(* Two backends are modelled as state: the IPAM allocator (the set of     *)
(* acquired addresses) and the datastore (the set of persisted records).  *)
(* Every handler is one atomic action; what the handler did (its calls to *)
(* the backends and the error it returned) is kept in the variable last.  *)
(* Addresses are scaled down: an address is a family and a number of      *)
(* Bits(family) bits, a prefix is a family, a base and a length.          *)
(***************************************************************************)
EXTENDS Integers, Sequences, FiniteSets, TLC

VARIABLES
    store,   \* the datastore: the set of persisted metal.IP records
    ipam,    \* the allocator: the set of acquired addresses
    grants,  \* how many addresses the allocator has handed out so far;
             \* the next allocation uuid (time-ordered, never repeated)
    last,    \* the handler call that just ended: request, calls, result
    procs    \* requests served side by side: where each one stands

vars == <<store, ipam, grants, last, procs>>

\* Bound of the model: the addresses the allocator hands out in one run.
MaxAlloc == 2

\* Bound of the model: the requests served side by side.
MaxProc == 2

Procs == 1 .. MaxProc

\* ------------------------------------------------------------------------
\* Errors.  kind tells how the Go error is built: a *connect.Error, an error
\* of pkg/db/generic, or a plain error (fmt.Errorf, a transport error, ...).
\* ------------------------------------------------------------------------
NoErr == [kind |-> "nil", code |-> "OK", site |-> "none"]

ConnectErr(code, site) == [kind |-> "connect", code |-> code, site |-> site]

GenericErr(code, site) == [kind |-> "generic", code |-> code, site |-> site]

PlainErr(site) == [kind |-> "plain", code |-> "Unknown", site |-> site]

\* connect.NewError(code, err): the wrapped error keeps where it came from.
NewError(code, err) == [kind |-> "connect", code |-> code, site |-> err.site]

\* errors.As(err, &connectErr)
IsConnect(err) == err.kind = "connect"

\* The class a caller sees: the code of a *connect.Error or of a generic
\* error; an error that is neither has none.
Class(err) == err.code

\* ------------------------------------------------------------------------
\* Address families, addresses, prefixes.
\* ------------------------------------------------------------------------
IPv4AddressFamily == "IPv4"

IPv6AddressFamily == "IPv6"

\* The zero value of metal.AddressFamily (var af metal.AddressFamily).
ZeroAddressFamily == ""

\* Scaled-down address width of a family.
Bits(fam) == IF fam = IPv4AddressFamily THEN 3 ELSE 2

RECURSIVE Pow2(_)
Pow2(k) == IF k = 0 THEN 1 ELSE 2 * Pow2(k - 1)

Addr(fam, n) == [fam |-> fam, n |-> n]

Pfx(fam, base, len) == [fam |-> fam, base |-> base, len |-> len]

\* netip.Prefix.Contains: same family and equal leading len bits.
Contains(pfx, a) ==
    /\ a.fam = pfx.fam
    /\ (a.n \div Pow2(Bits(pfx.fam) - pfx.len))
         = (pfx.base \div Pow2(Bits(pfx.fam) - pfx.len))

\* The empty string where the code holds an address or a prefix.
NoIP == Addr("", 0)

NoPfx == Pfx("", 0, 0)

AllAddrs ==
    {Addr(IPv4AddressFamily, n) : n \in 0 .. (Pow2(Bits(IPv4AddressFamily)) - 1)}
    \cup
    {Addr(IPv6AddressFamily, n) : n \in 0 .. (Pow2(Bits(IPv6AddressFamily)) - 1)}

HostsOf(pfx) == {a \in AllAddrs : Contains(pfx, a)}

\* ------------------------------------------------------------------------
\* Networks and projects (external entities, read-only).
\* ------------------------------------------------------------------------
Projects == {"p1", "p2"}

Networks ==
    [ internet |->
        [ID |-> "internet", Shared |-> FALSE, ParentNetworkID |-> "",
         ProjectID |-> "",
         AddressFamilies |-> <<IPv4AddressFamily, IPv6AddressFamily>>,
         Prefixes |-> <<Pfx(IPv6AddressFamily, 0, 2),
                        Pfx(IPv4AddressFamily, 0, 3),
                        Pfx(IPv4AddressFamily, 2, 2)>>],
      tenant |->
        [ID |-> "tenant", Shared |-> FALSE, ParentNetworkID |-> "super",
         ProjectID |-> "p1",
         AddressFamilies |-> <<IPv4AddressFamily>>,
         Prefixes |-> <<Pfx(IPv4AddressFamily, 4, 3)>>],
      shared |->
        [ID |-> "shared", Shared |-> TRUE, ParentNetworkID |-> "super",
         ProjectID |-> "p1",
         AddressFamilies |-> <<IPv6AddressFamily>>,
         Prefixes |-> <<Pfx(IPv6AddressFamily, 2, 2)>>] ]

NetworkIDs == DOMAIN Networks

\* Every prefix of every network, and the addresses the allocator manages.
AllPrefixes ==
    UNION {{Networks[n].Prefixes[i] : i \in 1 .. Len(Networks[n].Prefixes)}
             : n \in NetworkIDs}

Hosts == UNION {HostsOf(p) : p \in AllPrefixes}

\* metal.Prefixes.OfFamily: the prefixes of family af, in listed order.
OfFamily(prefixes, af) == SelectSeq(prefixes, LAMBDA p : p.fam = af)

\* ------------------------------------------------------------------------
\* The allocator (go-ipam behind r.r.ipam), an external collaborator.
\* A call answers from the allocator's state unless the call is hit by a
\* fault: a *connect.Error of another code, or an error that is no
\* *connect.Error at all.
\* ------------------------------------------------------------------------
FaultKinds == {"Internal", "plain"}

NoFault == [at |-> 0, kind |-> "none"]

\* The fault of one handler call: which of its allocator calls fails, and how.
Faults == {NoFault} \cup {[at |-> i, kind |-> k] : i \in 1 .. 2, k \in FaultKinds}

FaultErr(kind, site) ==
    IF kind = "plain" THEN PlainErr(site) ELSE ConnectErr(kind, site)

FreeIn(ipm, pfx) == HostsOf(pfx) \ ipm

\* The free address the allocator hands out: the first free one of the prefix.
Grant(ipm, pfx) ==
    CHOOSE a \in FreeIn(ipm, pfx) : \A b \in FreeIn(ipm, pfx) : a.n <= b.n

\* ipam.AcquireIP(AcquireIPRequest{PrefixCidr: pfx}): any free address of pfx.
AcquireIPRandom(ipm, pfx, faultKind) ==
    IF faultKind # "none"
    THEN [err |-> FaultErr(faultKind, "ipam.AcquireIP"), ip |-> NoIP, ipam |-> ipm]
    ELSE IF FreeIn(ipm, pfx) = {}
    THEN [err |-> ConnectErr("NotFound", "ipam.AcquireIP"), ip |-> NoIP, ipam |-> ipm]
    ELSE [err |-> NoErr, ip |-> Grant(ipm, pfx),
          ipam |-> ipm \cup {Grant(ipm, pfx)}]

\* ipam.AcquireIP(AcquireIPRequest{PrefixCidr: pfx, Ip: &specific})
AcquireIPSpecific(ipm, pfx, specific, faultKind) ==
    IF faultKind # "none"
    THEN [err |-> FaultErr(faultKind, "ipam.AcquireIP"), ip |-> NoIP, ipam |-> ipm]
    ELSE IF specific \in ipm
    THEN [err |-> ConnectErr("AlreadyExists", "ipam.AcquireIP"), ip |-> NoIP, ipam |-> ipm]
    ELSE [err |-> NoErr, ip |-> specific, ipam |-> ipm \cup {specific}]

\* ipam.ReleaseIP(ReleaseIPRequest{Ip: ip, PrefixCidr: pfx})
ReleaseIP(ipm, ip, faultKind) ==
    IF faultKind # "none"
    THEN [err |-> FaultErr(faultKind, "ipam.ReleaseIP"), ipam |-> ipm]
    ELSE IF ip \notin ipm
    THEN [err |-> ConnectErr("NotFound", "ipam.ReleaseIP"), ipam |-> ipm]
    ELSE [err |-> NoErr, ipam |-> ipm \ {ip}]

\* ------------------------------------------------------------------------
\* AllocateRandomIP and AllocateSpecificIP.  A result holds the returned
\* error, address and parent prefix, the allocator state left behind, and
\* the AcquireIP calls made (the prefix of each, in order).
\* ------------------------------------------------------------------------
\* req.Ip == nil
NilIP == Addr("nil", 0)

\* A literal that netip.ParseAddr rejects.
BadLiteral == Addr("bad", 0)

AllocResult(err, ip, pfx, ipm, calls, family) ==
    [err |-> err, ip |-> ip, prefix |-> pfx, ipam |-> ipm, calls |-> calls,
     family |-> family]

\* The family AllocateRandomIP walks: *af when af is not nil, else the
\* network's only family, else IPv4.  afp = "nil" stands for a nil pointer.
ResolveRandomFamily(parent, afp) ==
    IF afp # "nil" THEN afp
    ELSE IF Len(parent.AddressFamilies) = 1 THEN parent.AddressFamilies[1]
    ELSE IPv4AddressFamily

\* One AcquireIP call: the prefix asked and how the allocator answered.
AcquireCall(pfx, err) == [pfx |-> pfx, res |-> err.code]

\* Faulty variant: a random walk that moves on to the next prefix after any allocator error.
RandomContinuesOnAnyError(err) == TRUE

\* Lines 286-291: an exhausted prefix is skipped.
RandomContinues(err) == IsConnect(err) /\ err.code = "NotFound"

\* for _, prefix := range parent.Prefixes.OfFamily(addressfamily) { ... }
RECURSIVE RandomLoop(_, _, _, _, _, _)
RandomLoop(prefixes, i, ipm, fault, calls, family) ==
    IF i > Len(prefixes)
    THEN AllocResult(PlainErr("no ips left"), NoIP, NoPfx, ipm, calls, family)
    ELSE LET resp == AcquireIPRandom(ipm, prefixes[i],
                        IF fault.at = Len(calls) + 1 THEN fault.kind ELSE "none")
             made == Append(calls, AcquireCall(prefixes[i], resp.err))
         IN  IF resp.err # NoErr
             THEN IF RandomContinues(resp.err)
                  THEN RandomLoop(prefixes, i + 1, resp.ipam, fault, made, family)
                  ELSE AllocResult(resp.err, NoIP, NoPfx, resp.ipam, made, family)
             ELSE AllocResult(NoErr, resp.ip, prefixes[i], resp.ipam, made, family)

AllocateRandomIP(parent, afp, ipm, fault) ==
    RandomLoop(OfFamily(parent.Prefixes, ResolveRandomFamily(parent, afp)),
               1, ipm, fault, <<>>, ResolveRandomFamily(parent, afp))

\* parsedIP.Is6() picks the family whose prefixes are walked.
LiteralFamily(parsedIP) ==
    IF parsedIP.fam = IPv6AddressFamily THEN IPv6AddressFamily
    ELSE IPv4AddressFamily

\* Faulty variant: a specific allocation that asks the first prefix of the family, whether
\* or not it contains the address.
SpecificSkipsNothing(pfx, parsedIP) == FALSE

\* Lines 253-255: a prefix that does not contain the address is skipped.
SpecificSkips(pfx, parsedIP) == ~Contains(pfx, parsedIP)

\* for _, prefix := range parent.Prefixes.OfFamily(af) { ... }
RECURSIVE SpecificLoop(_, _, _, _, _, _)
SpecificLoop(prefixes, i, specificIP, ipm, fault, family) ==
    IF i > Len(prefixes)
    THEN AllocResult(PlainErr("not contained"), NoIP, NoPfx, ipm, <<>>, family)
    ELSE IF SpecificSkips(prefixes[i], specificIP)
    THEN SpecificLoop(prefixes, i + 1, specificIP, ipm, fault, family)
    ELSE LET resp == AcquireIPSpecific(ipm, prefixes[i], specificIP,
                        IF fault.at = 1 THEN fault.kind ELSE "none")
             made == <<AcquireCall(prefixes[i], resp.err)>>
         IN  IF IsConnect(resp.err) /\ resp.err.code = "AlreadyExists"
             THEN AllocResult(GenericErr("Conflict", "ip already allocated"),
                              NoIP, NoPfx, resp.ipam, made, family)
             ELSE IF resp.err # NoErr
             THEN AllocResult(resp.err, NoIP, NoPfx, resp.ipam, made, family)
             ELSE AllocResult(NoErr, resp.ip, prefixes[i], resp.ipam, made, family)

AllocateSpecificIP(parent, specificIP, ipm, fault) ==
    IF specificIP = BadLiteral
    THEN AllocResult(PlainErr("unable to parse specific ip"), NoIP, NoPfx, ipm,
                     <<>>, ZeroAddressFamily)
    ELSE SpecificLoop(OfFamily(parent.Prefixes, LiteralFamily(specificIP)),
                      1, specificIP, ipm, fault, LiteralFamily(specificIP))

\* ------------------------------------------------------------------------
\* The datastore r.r.ds.IP() and the project and network lookups.
\* A record's id (GetID) is its address.
\* ------------------------------------------------------------------------
Ephemeral == "ephemeral"

Static == "static"

IP(uuid, ip, pfx, name, description, network, project, type, tags) ==
    [AllocationUUID |-> uuid, IPAddress |-> ip, ParentPrefixCidr |-> pfx,
     Name |-> name, Description |-> description, NetworkID |-> network,
     ProjectID |-> project, Type |-> type, Tags |-> tags]

NoRecord == IP(0, NoIP, NoPfx, "", "", "", "", "", {})

Has(st, id) == \E r \in st : r.IPAddress = id

Lookup(st, id) == CHOOSE r \in st : r.IPAddress = id

\* ds.IP().Get
StoreGet(st, id) ==
    IF Has(st, id) THEN [err |-> NoErr, ip |-> Lookup(st, id)]
    ELSE [err |-> GenericErr("NotFound", "ds.Get"), ip |-> NoRecord]

\* Faulty variant: a store that takes a second record under an id it holds.
StoreCreateKeepsBoth(st, ip, ok) ==
    IF ~ok THEN [err |-> PlainErr("ds.Create"), store |-> st]
    ELSE [err |-> NoErr, store |-> st \cup {ip}]

\* ds.IP().Create: fails when the store fails or the id is taken.
StoreCreate(st, ip, ok) ==
    IF ~ok THEN [err |-> PlainErr("ds.Create"), store |-> st]
    ELSE IF Has(st, ip.IPAddress)
    THEN [err |-> GenericErr("Conflict", "ds.Create"), store |-> st]
    ELSE [err |-> NoErr, store |-> st \cup {ip}]

\* ds.IP().Update(new, old)
StoreUpdate(st, new, old, ok) ==
    IF ~ok THEN [err |-> PlainErr("ds.Update"), store |-> st]
    ELSE IF old \notin st
    THEN [err |-> GenericErr("NotFound", "ds.Update"), store |-> st]
    ELSE [err |-> NoErr, store |-> (st \ {old}) \cup {new}]

\* ds.IP().Delete
StoreDelete(st, ip, ok) ==
    IF ~ok THEN [err |-> PlainErr("ds.Delete"), store |-> st]
    ELSE IF ip \notin st
    THEN [err |-> GenericErr("NotFound", "ds.Delete"), store |-> st]
    ELSE [err |-> NoErr, store |-> st \ {ip}]

\* r.r.Project().Get(ctx, req.Project)
ProjectGet(project) ==
    IF project \in Projects THEN [err |-> NoErr, id |-> project]
    ELSE [err |-> GenericErr("NotFound", "Project.Get"), id |-> ""]

\* r.r.Network(ProjectScope(req.Project)).Get(ctx, req.Network)
NetworkGet(scope, network) ==
    IF network \in NetworkIDs THEN [err |-> NoErr, nw |-> Networks[network]]
    ELSE [err |-> GenericErr("NotFound", "Network.Get"), nw |-> Networks["internet"]]

\* ------------------------------------------------------------------------
\* Tags.  A tag is a key and a value; a record holds its tags as a set.
\* ------------------------------------------------------------------------
MachineID == "metal-stack.io/machineid"

Tag(k, v) == [k |-> k, v |-> v]

\* tag.NewTagMap(tags).Slice(): one tag per key, the last one given.
NewTagMapSlice(tags) ==
    {tags[i] : i \in {j \in 1 .. Len(tags) :
                        \A l \in (j + 1) .. Len(tags) : tags[l].k # tags[j].k}}

\* tags = append(tags, tag.New(tag.MachineID, *req.MachineId)), then de-duplicated
CreateTags(tags, machineId) ==
    NewTagMapSlice(IF machineId # "nil"
                   THEN Append(tags, Tag(MachineID, machineId)) ELSE tags)

\* ------------------------------------------------------------------------
\* ipRepository.Get
\* ------------------------------------------------------------------------
\* Faulty variant: a Get that hands out every record, whatever its project.
GetUnscoped(st, scope, id) == StoreGet(st, id)

Get(st, scope, id) ==
    LET got == StoreGet(st, id)
    IN  IF got.err # NoErr THEN got
        ELSE IF scope # got.ip.ProjectID
        THEN [err |-> GenericErr("NotFound", "Get.scope"), ip |-> NoRecord]
        ELSE got


\* ------------------------------------------------------------------------
\* The handler call that just ended: what it was asked, the backend calls
\* it made, what it returned, and the backends' state when it began.
\* ------------------------------------------------------------------------
NoCall ==
    [op |-> "none", project |-> "", network |-> "", id |-> NoIP,
     hasIP |-> FALSE, ip |-> NilIP, af |-> "nil", type |-> "nil", has |-> {},
     family |-> "-", calls |-> <<>>, allocErr |-> NoErr, acquired |-> NoIP,
     prefix |-> NoPfx, releases |-> 0, relErr |-> NoErr, writes |-> 0, old |-> NoRecord,
     new |-> NoRecord, err |-> NoErr, pre |-> [store |-> {}, ipam |-> {}],
     filter |-> "", cands |-> <<>>, result |-> <<>>]

\* ------------------------------------------------------------------------
\* ipRepository.Create
\* ------------------------------------------------------------------------
Deref(ptr) == IF ptr = "nil" THEN "" ELSE ptr

\* Faulty variant: a family check that lets a request name both an address
\* and a family.
CreateFamilyAllowsBoth(reqAF, hasIP, nw) ==
    IF reqAF = "nil" THEN [err |-> NoErr, af |-> ZeroAddressFamily]
    ELSE IF reqAF = "UNSPECIFIED"
    THEN [err |-> ConnectErr("InvalidArgument", "unsupported addressfamily"),
          af |-> ZeroAddressFamily]
    ELSE LET af == IF reqAF = "V4" THEN IPv4AddressFamily ELSE IPv6AddressFamily
         IN  IF \A i \in 1 .. Len(nw.AddressFamilies) : nw.AddressFamilies[i] # af
             THEN [err |-> ConnectErr("InvalidArgument", "no prefix for addressfamily"),
                   af |-> af]
             ELSE [err |-> NoErr, af |-> af]

\* Lines 74-95: the requested address family.
CreateFamily(reqAF, hasIP, nw) ==
    IF reqAF = "nil" THEN [err |-> NoErr, af |-> ZeroAddressFamily]
    ELSE IF reqAF = "UNSPECIFIED"
    THEN [err |-> ConnectErr("InvalidArgument", "unsupported addressfamily"),
          af |-> ZeroAddressFamily]
    ELSE LET af == IF reqAF = "V4" THEN IPv4AddressFamily ELSE IPv6AddressFamily
         IN  IF \A i \in 1 .. Len(nw.AddressFamilies) : nw.AddressFamilies[i] # af
             THEN [err |-> ConnectErr("InvalidArgument", "no prefix for addressfamily"),
                   af |-> af]
             ELSE IF hasIP
             THEN [err |-> ConnectErr("InvalidArgument", "specificIP and addressfamily"),
                   af |-> af]
             ELSE [err |-> NoErr, af |-> af]

\* Faulty variant: a scope check that forgets that shared networks are open to every project.
ScopeGuardIgnoresShared(nw, projectID) ==
    IF nw.ParentNetworkID # "" /\ projectID # nw.ProjectID
    THEN ConnectErr("InvalidArgument", "network is not shared")
    ELSE NoErr

\* Lines 97-101: private, unshared networks belong to one project.
ScopeGuard(nw, projectID) ==
    IF ~nw.Shared /\ nw.ParentNetworkID # "" /\ projectID # nw.ProjectID
    THEN ConnectErr("InvalidArgument", "network is not shared")
    ELSE NoErr

\* Faulty variant: a Create that takes the first prefix of the network for
\* the parent prefix of whatever address it got.
CreateAllocateFirstPrefix(nw, af, reqIP, ipm, fault) ==
    LET a == IF reqIP = NilIP
             THEN AllocateRandomIP(nw, af, ipm, fault)
             ELSE AllocateSpecificIP(nw, reqIP, ipm, fault)
    IN  IF a.err = NoErr THEN [a EXCEPT !.prefix = nw.Prefixes[1]] ELSE a

\* Lines 110-120: Create always hands AllocateRandomIP the address of af.
CreateAllocate(nw, af, reqIP, ipm, fault) ==
    IF reqIP = NilIP
    THEN AllocateRandomIP(nw, af, ipm, fault)
    ELSE AllocateSpecificIP(nw, reqIP, ipm, fault)

\* Lines 110-120: every allocation error is wrapped as Internal.
CreateAllocateErr(err) == NewError("Internal", err)

\* Lines 122-132: the requested type.
CreateType(reqType) ==
    IF reqType = "STATIC" THEN [err |-> NoErr, type |-> Static]
    ELSE IF reqType = "UNSPECIFIED"
    THEN [err |-> ConnectErr("Internal", "ip type is not supported"), type |-> Ephemeral]
    ELSE [err |-> NoErr, type |-> Ephemeral]

\* Faulty variant: a Create that gives the address back when the record cannot be persisted.
CreatePersistCompensates(st, ip, ipm, ok) ==
    IF StoreCreate(st, ip, ok).err # NoErr
    THEN [err |-> StoreCreate(st, ip, ok).err, store |-> st,
          ipam |-> ipm \ {ip.IPAddress}, releases |-> 1]
    ELSE [err |-> NoErr, store |-> StoreCreate(st, ip, ok).store,
          ipam |-> ipm, releases |-> 0]

\* Lines 153-156: the record is persisted; a failure is returned as it is,
\* and the allocator keeps what it was left with: nothing is released.
CreatePersist(st, ip, ipm, ok) ==
    [err |-> StoreCreate(st, ip, ok).err, store |-> StoreCreate(st, ip, ok).store,
     ipam |-> ipm, releases |-> 0]

CreateCall(project, network, reqAF, hasIP, reqIP, reqType, alloc, err) ==
    [NoCall EXCEPT !.op = "Create", !.project = project, !.network = network,
                   !.af = reqAF, !.hasIP = hasIP, !.ip = reqIP, !.type = reqType,
                   !.family = alloc.family, !.calls = alloc.calls,
                   !.allocErr = alloc.err,
                   !.acquired = alloc.ip, !.prefix = alloc.prefix, !.err = err,
                   !.pre = [store |-> store, ipam |-> ipam]]

NoAlloc == AllocResult(NoErr, NoIP, NoPfx, {}, <<>>, "-")

\* The request's fields and the backends' answers are drawn where the code
\* first reads them: what a call never reads cannot change what it does.
Create(In) ==
    /\ last.op = "none"
    /\ UNCHANGED procs
    /\ grants < MaxAlloc
    /\ \E project \in In.projects :
        LET p == ProjectGet(project)
        IN  IF p.err # NoErr
            THEN /\ last' = CreateCall(project, "", "nil", FALSE, NilIP, "nil", NoAlloc,
                                       NewError("Internal", p.err))
                 /\ UNCHANGED <<store, ipam, grants>>
            ELSE \E network \in In.networks :
        LET n == NetworkGet(project, network)
        IN  IF n.err # NoErr
            THEN /\ last' = CreateCall(project, network, "nil", FALSE, NilIP, "nil",
                                       NoAlloc, NewError("Internal", n.err))
                 /\ UNCHANGED <<store, ipam, grants>>
            ELSE \E reqAF \in In.families, hasIP \in In.hasIP :
        LET f == CreateFamily(reqAF, hasIP, n.nw)
            g == ScopeGuard(n.nw, p.id)
        IN  IF f.err # NoErr \/ g # NoErr
            THEN /\ last' = CreateCall(project, network, reqAF, hasIP, NilIP, "nil",
                                       NoAlloc, IF f.err # NoErr THEN f.err ELSE g)
                 /\ UNCHANGED <<store, ipam, grants>>
            ELSE \E reqIP \in (IF hasIP THEN In.literals ELSE {NilIP}),
                    fault \in In.faults :
        LET a == CreateAllocate(n.nw, f.af, reqIP, ipam, fault)
        IN  IF a.err # NoErr
            THEN /\ last' = CreateCall(project, network, reqAF, hasIP, reqIP, "nil", a,
                                       CreateAllocateErr(a.err))
                 /\ ipam' = a.ipam
                 /\ UNCHANGED <<store, grants>>
            ELSE \E reqType \in In.types :
        LET t == CreateType(reqType)
        IN  IF t.err # NoErr
            THEN /\ last' = CreateCall(project, network, reqAF, hasIP, reqIP, reqType,
                                       a, t.err)
                 /\ ipam' = a.ipam
                 /\ grants' = grants + 1
                 /\ UNCHANGED store
            ELSE \E uuidOk \in BOOLEAN :
            IF ~uuidOk
            THEN /\ last' = CreateCall(project, network, reqAF, hasIP, reqIP, reqType,
                                       a, PlainErr("uuid.NewV7"))
                 /\ ipam' = a.ipam
                 /\ grants' = grants + 1
                 /\ UNCHANGED store
            ELSE \E name \in In.names, description \in In.descriptions,
                    tags \in In.tags, machineId \in In.machineIds,
                    storeOk \in BOOLEAN :
        LET ip == IP(grants + 1, a.ip, a.prefix, Deref(name), Deref(description),
                     n.nw.ID, p.id, t.type, CreateTags(tags, machineId))
            w  == CreatePersist(store, ip, a.ipam, storeOk)
        IN  /\ last' = [CreateCall(project, network, reqAF, hasIP, reqIP, reqType,
                                   a, w.err)
                        EXCEPT !.writes = 1, !.new = ip, !.id = a.ip,
                               !.releases = w.releases]
            /\ ipam' = w.ipam
            /\ grants' = grants + 1
            /\ store' = w.store

\* ------------------------------------------------------------------------
\* ipRepository.Update
\* ------------------------------------------------------------------------
\* Faulty variant: an Update whose unspecified case does not return, so the
\* zero value of the type is written.
UpdateTypePassesUnspecified(reqType, old) ==
    IF reqType = "nil" THEN [err |-> NoErr, type |-> old]
    ELSE IF reqType = "EPHEMERAL" THEN [err |-> NoErr, type |-> Ephemeral]
    ELSE IF reqType = "STATIC" THEN [err |-> NoErr, type |-> Static]
    ELSE [err |-> NoErr, type |-> ""]

\* Lines 175-186: the requested type.
UpdateType(reqType, old) ==
    IF reqType = "nil" THEN [err |-> NoErr, type |-> old]
    ELSE IF reqType = "EPHEMERAL" THEN [err |-> NoErr, type |-> Ephemeral]
    ELSE IF reqType = "STATIC" THEN [err |-> NoErr, type |-> Static]
    ELSE [err |-> ConnectErr("InvalidArgument", "ip type cannot be unspecified"),
          type |-> old]

\* new.Tags = rq.Tags
UpdateTags(old, tags) == {tags[i] : i \in 1 .. Len(tags)}

\* Faulty variant: an Update that fills a fresh record in place of a copy of
\* the old one, and so loses the allocation uuid.
UpdateRecordFromScratch(old, name, description, type, tags) ==
    [old EXCEPT !.AllocationUUID = 0,
                !.Description = IF description # "nil" THEN description ELSE @,
                !.Name = IF name # "nil" THEN name ELSE @,
                !.Type = type,
                !.Tags = UpdateTags(old.Tags, tags)]

\* Lines 167-187: the record Update writes.
UpdateRecord(old, name, description, type, tags) ==
    [old EXCEPT !.Description = IF description # "nil" THEN description ELSE @,
                !.Name = IF name # "nil" THEN name ELSE @,
                !.Type = type,
                !.Tags = UpdateTags(old.Tags, tags)]

UpdateCall(scope, id, has, writes, old, new, err) ==
    [NoCall EXCEPT !.op = "Update", !.project = scope, !.id = id, !.has = has,
                   !.writes = writes, !.old = old, !.new = new, !.err = err,
                   !.pre = [store |-> store, ipam |-> ipam]]

\* The fields an Update request sets.
Provided(name, description, reqType, tags) ==
    {f \in {"name", "description", "type", "tags"} :
        \/ f = "name" /\ name # "nil"
        \/ f = "description" /\ description # "nil"
        \/ f = "type" /\ reqType # "nil"
        \/ f = "tags" /\ tags # <<>>}

Update(In) ==
    /\ last.op = "none"
    /\ UNCHANGED procs
    /\ \E scope \in In.scopes, id \in In.ids :
        LET got == Get(store, scope, id)
        IN  IF got.err # NoErr
            THEN /\ last' = UpdateCall(scope, id, {}, 0, NoRecord, NoRecord, got.err)
                 /\ UNCHANGED <<store, ipam, grants>>
            ELSE \E name \in In.names, description \in In.descriptions,
                    reqType \in In.types, tags \in In.tags :
        LET has == Provided(name, description, reqType, tags)
            t   == UpdateType(reqType, got.ip.Type)
        IN  IF t.err # NoErr
            THEN /\ last' = [UpdateCall(scope, id, has, 0, got.ip, NoRecord, t.err)
                            EXCEPT !.type = reqType]
                 /\ UNCHANGED <<store, ipam, grants>>
            ELSE \E storeOk \in BOOLEAN :
        LET new == UpdateRecord(got.ip, name, description, t.type, tags)
            w   == StoreUpdate(store, new, got.ip, storeOk)
        IN  /\ last' = [UpdateCall(scope, id, has, 1, got.ip, new, w.err)
                        EXCEPT !.type = reqType]
            /\ store' = w.store
            /\ UNCHANGED <<ipam, grants>>

\* ------------------------------------------------------------------------
\* ipRepository.Delete
\* ------------------------------------------------------------------------
DeleteCall(scope, id, releases, relErr, writes, old, err) ==
    [NoCall EXCEPT !.op = "Delete", !.project = scope, !.id = id,
                   !.releases = releases, !.relErr = relErr, !.writes = writes,
                   !.old = old, !.err = err,
                   !.pre = [store |-> store, ipam |-> ipam]]

\* Faulty variant: a Delete that gives up on every *connect.Error of ReleaseIP,
\* NotFound too.
ReleaseAbortsOnNotFoundToo(err) == err # NoErr /\ IsConnect(err)

\* Lines 206-213: whether the error of ReleaseIP ends Delete.
ReleaseAborts(err) ==
    err # NoErr /\ IsConnect(err) /\ err.code # "NotFound"

Delete(In) ==
    /\ last.op = "none"
    /\ UNCHANGED procs
    /\ \E scope \in In.scopes, id \in In.ids :
        LET got == Get(store, scope, id)
        IN  IF got.err # NoErr
            THEN /\ last' = DeleteCall(scope, id, 0, NoErr, 0, NoRecord, got.err)
                 /\ UNCHANGED <<store, ipam, grants>>
            ELSE \E faultKind \in {f.kind : f \in In.faults} :
        LET rel == ReleaseIP(ipam, got.ip.IPAddress, faultKind)
        IN  IF ReleaseAborts(rel.err)
            THEN /\ last' = DeleteCall(scope, id, 1, rel.err, 0, got.ip, rel.err)
                 /\ ipam' = rel.ipam
                 /\ UNCHANGED <<store, grants>>
            ELSE \E storeOk \in BOOLEAN :
        LET w == StoreDelete(store, got.ip, storeOk)
        IN  /\ last' = DeleteCall(scope, id, 1, rel.err, 1, got.ip, w.err)
            /\ ipam' = rel.ipam
            /\ store' = w.store
            /\ UNCHANGED grants

\* ------------------------------------------------------------------------
\* ipRepository.Get as a request of its own.
\* ------------------------------------------------------------------------
GetCall(scope, id, got) ==
    [NoCall EXCEPT !.op = "Get", !.project = scope, !.id = id, !.old = got.ip,
                   !.err = got.err, !.pre = [store |-> store, ipam |-> ipam]]

GetRequest(In) ==
    /\ last.op = "none"
    /\ UNCHANGED procs
    /\ \E scope \in In.scopes, id \in In.ids :
         last' = GetCall(scope, id, Get(store, scope, id))
    /\ UNCHANGED <<store, ipam, grants>>

\* ------------------------------------------------------------------------
\* ipServiceServer.List of the admin service, on top of ipRepository.List.
\* ------------------------------------------------------------------------
\* queries.IpFilter(rq): the records a filter selects; "" selects them all,
\* a project those of the project.
IpFilter(st, filter) == {r \in st : filter = "" \/ r.ProjectID = filter}

\* The orders in which the store may hand out a set of records.
Orders(S) ==
    {f \in [1 .. Cardinality(S) -> S] :
        \A i, j \in 1 .. Cardinality(S) : i # j => f[i] # f[j]}

\* ds.IP().List: the selected records in an order of the store's choosing.
StoreList(st, filter, ok) ==
    IF ~ok THEN {[err |-> PlainErr("ds.List"), ips |-> <<>>]}
    ELSE {[err |-> NoErr, ips |-> o] : o \in Orders(IpFilter(st, filter))}

\* ipRepository.List: what the store answers.
RepoList(st, filter, ok) == StoreList(st, filter, ok)

\* ipRepository.ConvertToProto
ConvertToProto(metalIP) ==
    [Ip |-> metalIP.IPAddress, Uuid |-> metalIP.AllocationUUID,
     Name |-> metalIP.Name, Description |-> metalIP.Description,
     Network |-> metalIP.NetworkID, Project |-> metalIP.ProjectID,
     Type |-> IF metalIP.Type = Ephemeral THEN "IP_TYPE_EPHEMERAL"
              ELSE IF metalIP.Type = Static THEN "IP_TYPE_STATIC"
              ELSE "IP_TYPE_UNSPECIFIED",
     Tags |-> metalIP.Tags]

\* Faulty variant: a listing that has lost its filter and shows machine ips too.
IsMachineIPNever(ip) == FALSE

\* tag.NewTagMap(ip.Tags).Value(tag.MachineID): the record has a machine tag.
IsMachineIP(ip) == \E t \in ip.Tags : t.k = MachineID

\* The loop of List: machine ips are left out, the others converted.
RECURSIVE ListLoop(_, _, _)
ListLoop(resp, i, res) ==
    IF i > Len(resp) THEN res
    ELSE IF IsMachineIP(resp[i]) THEN ListLoop(resp, i + 1, res)
    ELSE ListLoop(resp, i + 1, Append(res, ConvertToProto(resp[i])))

ListCall(filter, resp, res) ==
    [NoCall EXCEPT !.op = "List", !.filter = filter, !.cands = resp.ips,
                   !.result = res, !.err = resp.err,
                   !.pre = [store |-> store, ipam |-> ipam]]

List(In) ==
    /\ last.op = "none"
    /\ UNCHANGED procs
    /\ \E filter \in In.filters, ok \in BOOLEAN :
        \E resp \in RepoList(store, filter, ok) :
            last' = ListCall(filter, resp,
                             IF resp.err # NoErr THEN <<>>
                             ELSE ListLoop(resp.ips, 1, <<>>))
    /\ UNCHANGED <<store, ipam, grants>>

\* The result has been handed to the caller: the next request can begin.
Respond ==
    /\ last.op # "none"
    /\ last' = NoCall
    /\ UNCHANGED <<store, ipam, grants, procs>>

\* ------------------------------------------------------------------------
\* Create and Delete served side by side.  Each request is handled on its
\* own; a step is one call to the allocator or to the store, and the calls
\* of different requests interleave.  The backends do not fail here.
\* ------------------------------------------------------------------------
Idle ==
    [pc |-> "idle", project |-> "", network |-> "", type |-> "nil",
     pfxs |-> <<>>, i |-> 0, literal |-> NilIP, ip |-> NoIP, prefix |-> NoPfx,
     uuid |-> 0, rec |-> NoRecord]

\* Create up to the allocation (lines 42-108): the lookups and the checks of
\* the request; a request they reject ends here and leaves no trace.
CreateResolve(p, In) ==
    /\ procs[p].pc = "idle"
    /\ \E project \in In.projects, network \in In.networks,
          reqAF \in In.families, hasIP \in In.hasIP, reqType \in In.types :
        \E reqIP \in (IF hasIP THEN In.literals ELSE {NilIP}) :
        LET pg == ProjectGet(project)
            n  == NetworkGet(project, network)
            f  == CreateFamily(reqAF, hasIP, n.nw)
        IN  /\ pg.err = NoErr /\ n.err = NoErr /\ f.err = NoErr
            /\ ScopeGuard(n.nw, pg.id) = NoErr
            /\ reqIP # BadLiteral
            /\ procs' = [procs EXCEPT ![p] =
                  [Idle EXCEPT !.pc = "acquire", !.project = pg.id,
                               !.network = network, !.type = reqType,
                               !.literal = reqIP, !.i = 1,
                               !.pfxs = OfFamily(n.nw.Prefixes,
                                          IF reqIP = NilIP
                                          THEN ResolveRandomFamily(n.nw, f.af)
                                          ELSE LiteralFamily(reqIP))]]
    /\ UNCHANGED <<store, ipam, grants, last>>

\* One turn of the loop of AllocateRandomIP (lines 283-298) or of
\* AllocateSpecificIP (lines 247-271): at most one AcquireIP call.
CreateAcquire(p) ==
    LET l == procs[p]
    IN  /\ l.pc = "acquire"
        /\ grants < MaxAlloc
        /\ UNCHANGED <<store, last>>
        /\ IF l.i > Len(l.pfxs)
           THEN /\ procs' = [procs EXCEPT ![p] = Idle]
                /\ UNCHANGED <<ipam, grants>>
           ELSE IF l.literal # NilIP /\ SpecificSkips(l.pfxs[l.i], l.literal)
           THEN /\ procs' = [procs EXCEPT ![p].i = l.i + 1]
                /\ UNCHANGED <<ipam, grants>>
           ELSE LET r == IF l.literal = NilIP
                         THEN AcquireIPRandom(ipam, l.pfxs[l.i], "none")
                         ELSE AcquireIPSpecific(ipam, l.pfxs[l.i], l.literal, "none")
                IN  IF r.err = NoErr
                    THEN /\ ipam' = r.ipam
                         /\ grants' = grants + 1
                         /\ procs' = [procs EXCEPT ![p].pc = "persist",
                                                   ![p].ip = r.ip,
                                                   ![p].prefix = l.pfxs[l.i],
                                                   ![p].uuid = grants + 1]
                    ELSE IF l.literal = NilIP /\ RandomContinues(r.err)
                    THEN /\ procs' = [procs EXCEPT ![p].i = l.i + 1]
                         /\ UNCHANGED <<ipam, grants>>
                    ELSE /\ procs' = [procs EXCEPT ![p] = Idle]
                         /\ UNCHANGED <<ipam, grants>>

\* Lines 122-156: the type, the record and ds.IP().Create.
CreateStore(p) ==
    LET l == procs[p]
        t == CreateType(l.type)
        w == CreatePersist(store,
                           IP(l.uuid, l.ip, l.prefix, "", "", l.network, l.project,
                              t.type, CreateTags(<<>>, "nil")),
                           ipam, TRUE)
    IN  /\ l.pc = "persist"
        /\ store' = IF t.err # NoErr THEN store ELSE w.store
        /\ procs' = [procs EXCEPT ![p] = Idle]
        /\ UNCHANGED <<ipam, grants, last>>

\* Lines 198-201: Delete reads the record.
DeleteGet(p, In) ==
    /\ procs[p].pc = "idle"
    /\ \E scope \in In.scopes, id \in In.ids :
        LET got == Get(store, scope, id)
        IN  /\ got.err = NoErr
            /\ procs' = [procs EXCEPT ![p] =
                  [Idle EXCEPT !.pc = "release", !.project = scope, !.rec = got.ip]]
    /\ UNCHANGED <<store, ipam, grants, last>>

\* Lines 205-213: ReleaseIP.
DeleteRelease(p) ==
    LET l   == procs[p]
        rel == ReleaseIP(ipam, l.rec.IPAddress, "none")
    IN  /\ l.pc = "release"
        /\ ipam' = rel.ipam
        /\ procs' = [procs EXCEPT ![p] =
                       IF ReleaseAborts(rel.err) THEN Idle
                       ELSE [l EXCEPT !.pc = "remove"]]
        /\ UNCHANGED <<store, grants, last>>

\* Lines 215-218: ds.IP().Delete.
DeleteRemove(p) ==
    LET l == procs[p]
    IN  /\ l.pc = "remove"
        /\ store' = StoreDelete(store, l.rec, TRUE).store
        /\ procs' = [procs EXCEPT ![p] = Idle]
        /\ UNCHANGED <<ipam, grants, last>>

\* ------------------------------------------------------------------------
\* The requests and backend answers the specifications draw from.
\* ------------------------------------------------------------------------
ReqLiterals ==
    Hosts \cup {Addr(IPv4AddressFamily, 7), Addr(IPv6AddressFamily, 3), BadLiteral}

\* Every project, network, family, literal and fault; no metadata, and the
\* type left out or unspecified.
Requests ==
    [projects |-> Projects \cup {"px"}, networks |-> NetworkIDs \cup {"nx"},
     families |-> {"nil", "V4", "V6", "UNSPECIFIED"}, hasIP |-> BOOLEAN,
     literals |-> ReqLiterals, faults |-> Faults,
     types |-> {"nil", "UNSPECIFIED"},
     names |-> {"nil"}, descriptions |-> {"nil"},
     tags |-> {<<>>}, machineIds |-> {"nil"},
     scopes |-> Projects, ids |-> Hosts]

\* Every name, description, type, tag and machine id, on the shared network.
MetaRequests ==
    [projects |-> Projects, networks |-> {"shared"},
     families |-> {"V6"}, hasIP |-> {FALSE},
     literals |-> {}, faults |-> {NoFault},
     types |-> {"nil", "EPHEMERAL", "STATIC", "UNSPECIFIED"},
     names |-> {"nil", "web"},
     descriptions |-> {"nil", "frontend"},
     tags |-> {<<>>, <<Tag("color", "red")>>, <<Tag(MachineID, "m0")>>},
     machineIds |-> {"nil", "m1"},
     scopes |-> Projects, ids |-> HostsOf(Networks["shared"].Prefixes[1])]

\* Tenant and machine addresses of two projects on the internet network, and
\* every filter.
ListRequests ==
    [projects |-> Projects, networks |-> {"internet"},
     families |-> {"V4"}, hasIP |-> {FALSE},
     literals |-> {}, faults |-> {NoFault},
     types |-> {"nil"},
     names |-> {"nil"}, descriptions |-> {"nil"},
     tags |-> {<<>>, <<Tag("color", "red")>>, <<Tag(MachineID, "m0")>>},
     machineIds |-> {"nil", "m1"},
     scopes |-> Projects, ids |-> HostsOf(Networks["internet"].Prefixes[2]),
     filters |-> {""} \cup Projects]

\* Requests that meet on the same few addresses.
ConcRequests ==
    [projects |-> {"p1"}, networks |-> {"tenant", "internet"},
     families |-> {"V4"}, hasIP |-> BOOLEAN,
     literals |-> {Addr(IPv4AddressFamily, 4), Addr(IPv4AddressFamily, 0)},
     faults |-> {NoFault}, types |-> {"nil"},
     names |-> {"nil"}, descriptions |-> {"nil"},
     tags |-> {<<>>}, machineIds |-> {"nil"},
     scopes |-> {"p1"}, ids |-> {Addr(IPv4AddressFamily, 4), Addr(IPv4AddressFamily, 0)}]

Init ==
    /\ store = {}
    /\ ipam = {}
    /\ grants = 0
    /\ last = NoCall
    /\ procs = [p \in Procs |-> Idle]

Next ==
    \/ Create(Requests)
    \/ GetRequest(Requests)
    \/ Update(Requests)
    \/ Delete(Requests)
    \/ Respond

Spec == Init /\ [][Next]_vars

NextMeta ==
    \/ Create(MetaRequests)
    \/ Update(MetaRequests)
    \/ Delete(MetaRequests)
    \/ Respond

SpecMeta == Init /\ [][NextMeta]_vars

NextList ==
    \/ Create(ListRequests)
    \/ Update(ListRequests)
    \/ List(ListRequests)
    \/ Respond

SpecList == Init /\ [][NextList]_vars

NextConc ==
    \E p \in Procs :
        \/ CreateResolve(p, ConcRequests)
        \/ CreateAcquire(p)
        \/ CreateStore(p)
        \/ DeleteGet(p, ConcRequests)
        \/ DeleteRelease(p)
        \/ DeleteRemove(p)

SpecConc == Init /\ [][NextConc]_vars

\* ------------------------------------------------------------------------
\* Claims.  Every formula speaks about the call that just ended (last) and
\* the backends before (last.pre) and after it (store, ipam).
\* ------------------------------------------------------------------------
NotFoundFromRelease == ConnectErr("NotFound", "ipam.ReleaseIP")

\* Whether the network of a Create request is one network N of the model.
KnownNetwork == last.network \in NetworkIDs

\* The prefixes of network nw, of any family, that contain the literal.
PrefixesContaining(nw, literal) ==
    {i \in 1 .. Len(nw.Prefixes) : Contains(nw.Prefixes[i], literal)}

\* A Create call that got as far as AllocateRandomIP.
RandomAllocation == last.op = "Create" /\ ~last.hasIP /\ last.family # "-"

\* A Create call that got as far as AllocateSpecificIP with a literal that
\* parses.
SpecificAllocation ==
    last.op = "Create" /\ last.hasIP /\ last.ip \notin {NilIP, BadLiteral}

\* C1: whenever ReleaseIP fails with any error other than NotFound, an
\* unclassified error included, Delete returns an error, does not call
\* Store.Delete and leaves the record in the Store.
C1_DeleteAbortsOnEveryOtherReleaseError ==
    (last.op = "Delete" /\ last.releases = 1 /\ last.relErr # NoErr
       /\ last.relErr # NotFoundFromRelease)
    => (last.err # NoErr /\ last.writes = 0 /\ last.old \in store)

\* C2: a Create without address and without family asks only prefixes of the
\* network's only family, or of IPv4 when the network has several; and when
\* such a prefix has a free address and the allocator answers, the Create
\* acquires an address of that family.
C2_CreateResolvesFamilyFromNetwork ==
    (RandomAllocation /\ last.af = "nil")
    => LET nw   == Networks[last.network]
           F    == IF Len(nw.AddressFamilies) = 1
                   THEN nw.AddressFamilies[1]
                   ELSE IPv4AddressFamily
           n    == Len(last.calls)
           free == {i \in 1 .. Len(nw.Prefixes) :
                      /\ nw.Prefixes[i].fam = F
                      /\ HostsOf(nw.Prefixes[i]) \ last.pre.ipam # {}}
       IN  /\ \A i \in 1 .. n : last.calls[i].pfx.fam = F
           /\ (free # {} /\ \A i \in 1 .. n : last.calls[i].res \in {"OK", "NotFound"})
                => /\ last.acquired # NoIP
                   /\ last.acquired.fam = F

\* C3: an Update keeps the name, the description, the type and the tags the
\* request leaves out.
C3_UpdateKeepsWhatIsLeftOut ==
    (last.op = "Update" /\ last.writes = 1)
    => /\ "name" \notin last.has => last.new.Name = last.old.Name
       /\ "description" \notin last.has => last.new.Description = last.old.Description
       /\ "type" \notin last.has => last.new.Type = last.old.Type
       /\ "tags" \notin last.has => last.new.Tags = last.old.Tags

\* C4: when ReleaseIP answers NotFound, Delete goes on to Store.Delete and
\* returns no error of the release: it fails only if Store.Delete fails, and
\* otherwise the record is gone.  So a Delete of a record whose address the
\* allocator no longer holds never ends at its release step, unless the
\* allocator call itself breaks.
C4_DeleteTreatsNotFoundAsReleased ==
    (last.op = "Delete" /\ last.releases = 1)
    => /\ last.relErr = NotFoundFromRelease
            => /\ last.writes = 1
               /\ last.err # last.relErr
               /\ last.err = NoErr => last.old \notin store
               /\ last.err # NoErr => last.err.site = "ds.Delete" /\ store = last.pre.store
       /\ (last.old.IPAddress \notin last.pre.ipam
             /\ last.relErr.code \in {"OK", "NotFound"})
            => last.relErr = NotFoundFromRelease /\ last.writes = 1

C4_Witness ==
    /\ last.op = "Delete"
    /\ last.relErr = NotFoundFromRelease
    /\ last.err = NoErr
    /\ last.old \in last.pre.store
    /\ last.old \notin store

\* C5: a Create for a project other than the owner of an unshared network
\* with a parent returns an error, asks the allocator for nothing and writes
\* nothing, so both backends are as before; and only such a network is ever
\* rejected by this check.
C5_ScopeRejectionHasNoSideEffect ==
    (last.op = "Create" /\ last.project \in Projects /\ KnownNetwork)
    => /\ (/\ ~Networks[last.network].Shared
           /\ Networks[last.network].ParentNetworkID # ""
           /\ Networks[last.network].ProjectID # last.project)
            => /\ last.err # NoErr
               /\ last.calls = <<>>
               /\ last.writes = 0
               /\ store = last.pre.store
               /\ ipam = last.pre.ipam
       /\ last.err.site = "network is not shared"
            => /\ ~Networks[last.network].Shared
               /\ Networks[last.network].ParentNetworkID # ""
               /\ Networks[last.network].ProjectID # last.project

C5_Witness ==
    /\ last.op = "Create"
    /\ last.err.site = "network is not shared"
    /\ last.pre.ipam # {}
    /\ ipam = last.pre.ipam

\* C6: the error of a Create that the scope check rejects is of class
\* PermissionDenied.
C6_ScopeRejectionIsPermissionDenied ==
    (last.op = "Create" /\ last.err.site = "network is not shared")
    => Class(last.err) = "PermissionDenied"

\* C7: Create calls Store.Create only after AcquireIP has handed out an
\* address; when Store.Create then fails, Create returns that error, releases
\* nothing, and the address stays acquired while the Store is as before.
C7_AcquireBeforePersistNoRelease ==
    (last.op = "Create" /\ last.writes = 1)
    => /\ last.allocErr = NoErr
       /\ last.calls # <<>>
       /\ last.calls[Len(last.calls)].res = "OK"
       /\ last.acquired \in ipam \ last.pre.ipam
       /\ last.err # NoErr
            => /\ last.releases = 0
               /\ store = last.pre.store
               /\ last.new \notin store

C7_Witness ==
    /\ last.op = "Create"
    /\ last.writes = 1
    /\ last.err # NoErr
    /\ last.acquired \in ipam

\* C8: AllocateRandomIP asks the prefixes of the family in listed order; it
\* goes past a prefix only on NotFound, stops at the first other answer, and
\* what it returns is the address acquired in that prefix; any other error
\* ends the walk with nothing acquired.
C8_RandomWalksPrefixesInOrder ==
    RandomAllocation
    => LET pfxs == SelectSeq(Networks[last.network].Prefixes,
                             LAMBDA p : p.fam = last.family)
           n    == Len(last.calls)
       IN  /\ n <= Len(pfxs)
           /\ \A i \in 1 .. n : last.calls[i].pfx = pfxs[i]
           /\ \A i \in 1 .. (n - 1) : last.calls[i].res = "NotFound"
           /\ n < Len(pfxs) => n >= 1 /\ last.calls[n].res # "NotFound"
           /\ last.acquired # NoIP <=> (n >= 1 /\ last.calls[n].res = "OK")
           /\ last.acquired # NoIP
                => /\ last.prefix = pfxs[n]
                   /\ last.prefix.fam = last.family
                   /\ Contains(last.prefix, last.acquired)
                   /\ last.acquired \in ipam \ last.pre.ipam
           /\ (n >= 1 /\ last.calls[n].res \notin {"OK", "NotFound"})
                => /\ Class(last.allocErr) = last.calls[n].res
                   /\ ipam = last.pre.ipam

C8_Witness ==
    /\ RandomAllocation
    /\ Len(last.calls) = 2
    /\ last.calls[1].res = "NotFound"
    /\ last.acquired # NoIP

\* C9: for a literal L in exactly one prefix P of the network,
\* AllocateSpecificIP asks P alone; it returns (L, P), or fails with Conflict
\* when the allocator says AlreadyExists, which it does when L is acquired.
C9_SpecificReturnsLiteralOrConflict ==
    (SpecificAllocation /\ KnownNetwork
       /\ Cardinality(PrefixesContaining(Networks[last.network], last.ip)) = 1)
    => LET nw == Networks[last.network]
           P  == nw.Prefixes[CHOOSE i \in PrefixesContaining(nw, last.ip) : TRUE]
       IN  /\ Len(last.calls) = 1
           /\ last.calls[1].pfx = P
           /\ last.calls[1].res = "OK"
                => /\ last.acquired = last.ip
                   /\ last.prefix = P
                   /\ last.allocErr = NoErr
           /\ last.calls[1].res = "AlreadyExists"
                => /\ last.allocErr.kind = "generic"
                   /\ Class(last.allocErr) = "Conflict"
                   /\ last.acquired = NoIP
           /\ last.ip \in last.pre.ipam
                => last.calls[1].res # "OK" /\ last.acquired = NoIP

C9_Witness ==
    /\ SpecificAllocation
    /\ Class(last.allocErr) = "Conflict"
    /\ last.ip \in last.pre.ipam
    /\ Len(last.calls) = 1

\* C10: AllocateSpecificIP on a literal that no prefix of the network
\* contains fails with InvalidArgument, which is also what Create returns, and
\* asks the allocator for nothing.
C10_NotContainedIsInvalidArgument ==
    (SpecificAllocation /\ KnownNetwork
       /\ PrefixesContaining(Networks[last.network], last.ip) = {})
    => /\ Class(last.allocErr) = "InvalidArgument"
       /\ Class(last.err) = "InvalidArgument"
       /\ last.calls = <<>>

\* C11: a Create that names both an address and a family fails, asks the
\* allocator for nothing and writes nothing, so both backends are as before;
\* when the project and the network exist the error is InvalidArgument.
C11_AddressAndFamilyIsInvalidArgument ==
    (last.op = "Create" /\ last.hasIP /\ last.af # "nil")
    => /\ last.err # NoErr
       /\ last.calls = <<>>
       /\ last.writes = 0
       /\ store = last.pre.store
       /\ ipam = last.pre.ipam
       /\ (last.project \in Projects /\ KnownNetwork)
            => Class(last.err) = "InvalidArgument"

C11_Witness ==
    /\ last.op = "Create"
    /\ last.hasIP
    /\ last.af = "V4"
    /\ last.err.site = "specificIP and addressfamily"
    /\ last.pre.ipam # {}

C13_UpdateKeepsImmutableFields ==
    (last.op = "Update" /\ last.writes = 1)
    => /\ last.old \in last.pre.store
       /\ last.new.IPAddress = last.old.IPAddress
       /\ last.new.ParentPrefixCidr = last.old.ParentPrefixCidr
       /\ last.new.NetworkID = last.old.NetworkID
       /\ last.new.ProjectID = last.old.ProjectID
       /\ last.new.AllocationUUID = last.old.AllocationUUID
       /\ last.err = NoErr => store = (last.pre.store \ {last.old}) \cup {last.new}
       /\ last.err # NoErr => store = last.pre.store

C13_Witness ==
    /\ last.op = "Update"
    /\ last.writes = 1
    /\ last.err = NoErr
    /\ last.new \in store
    /\ last.new.Name # last.old.Name
    /\ last.new.Type # last.old.Type

\* A Get, Update or Delete for a record that is stored under another project
\* than the caller's.
OutOfScope ==
    /\ last.op \in {"Get", "Update", "Delete"}
    /\ \E r \in last.pre.store : r.IPAddress = last.id /\ r.ProjectID # last.project

\* C14: Get, Update and Delete of a record of another project fail with
\* NotFound, release nothing, write nothing and leave both backends as they
\* were.
C14_OutOfScopeIsNotFound ==
    OutOfScope
    => /\ Class(last.err) = "NotFound"
       /\ last.old = NoRecord
       /\ last.releases = 0
       /\ last.writes = 0
       /\ store = last.pre.store
       /\ ipam = last.pre.ipam

C14_Witness ==
    /\ OutOfScope
    /\ last.op = "Delete"
    /\ last.id \in ipam
    /\ last.err.site = "Get.scope"

\* A record that carries the reserved machine tag.
IsTaggedForMachine(r) == Tag(MachineID, "m0") \in r.Tags \/ Tag(MachineID, "m1") \in r.Tags

\* The positions of the store's answer that hold no machine ip.
TenantPositions == {i \in 1 .. Len(last.cands) : ~IsTaggedForMachine(last.cands[i])}

\* C15: a List that succeeds shows no record with a machine tag, and shows
\* every other record the store answered, once, converted, in the store's
\* order.
C15_ListLeavesOutMachineIPs ==
    (last.op = "List" /\ last.err = NoErr)
    => /\ \A k \in 1 .. Len(last.result) :
              \A t \in last.result[k].Tags : t.k # MachineID
       /\ Len(last.result) = Cardinality(TenantPositions)
       /\ \A i \in TenantPositions :
              LET k == Cardinality({j \in TenantPositions : j <= i})
              IN  /\ last.result[k].Ip = last.cands[i].IPAddress
                  /\ last.result[k].Uuid = last.cands[i].AllocationUUID
                  /\ last.result[k].Project = last.cands[i].ProjectID
                  /\ last.result[k].Tags = last.cands[i].Tags
       /\ {last.cands[i] : i \in 1 .. Len(last.cands)}
            = {r \in store : last.filter = "" \/ r.ProjectID = last.filter}
       /\ store = last.pre.store

C15_Witness ==
    /\ last.op = "List"
    /\ last.err = NoErr
    /\ Len(last.cands) = 2
    /\ IsTaggedForMachine(last.cands[1])
    /\ Len(last.result) = 1
    /\ last.result[1].Ip = last.cands[2].IPAddress

\* C16: the parent prefix of every stored record is one of the prefixes of
\* the record's network and contains the record's address; and the record a
\* Create writes holds the address it acquired and the prefix it acquired it
\* in, which is of the family the allocation walked.
C16_ParentPrefixHoldsAddress ==
    /\ \A r \in store :
          /\ r.NetworkID \in NetworkIDs
          /\ \E i \in 1 .. Len(Networks[r.NetworkID].Prefixes) :
                Networks[r.NetworkID].Prefixes[i] = r.ParentPrefixCidr
          /\ Contains(r.ParentPrefixCidr, r.IPAddress)
    /\ (last.op = "Create" /\ last.writes = 1)
         => /\ last.new.IPAddress = last.acquired
            /\ last.new.ParentPrefixCidr = last.prefix
            /\ last.new.NetworkID = last.network
            /\ last.prefix.fam = last.family

C16_Witness ==
    /\ last.op = "Create"
    /\ last.hasIP
    /\ last.err = NoErr
    /\ last.new \in store
    /\ last.new.ParentPrefixCidr = Networks["internet"].Prefixes[3]
    /\ Cardinality(store) = 2

\* C17: a Create whose project or network lookup finds nothing fails with
\* NotFound, asks the allocator for nothing and writes nothing.
C17_LookupMissIsNotFound ==
    (last.op = "Create" /\ last.err.site \in {"Project.Get", "Network.Get"})
    => /\ Class(last.err) = "NotFound"
       /\ last.calls = <<>>
       /\ last.writes = 0
       /\ store = last.pre.store
       /\ ipam = last.pre.ipam

\* C18: a random allocation that finds every prefix of its family exhausted
\* (NotFound from each) fails with ResourceExhausted, from AllocateRandomIP
\* and from Create, and acquires nothing.
C18_ExhaustedIsResourceExhausted ==
    (/\ RandomAllocation
     /\ Len(last.calls) >= 1
     /\ Len(last.calls) = Len(SelectSeq(Networks[last.network].Prefixes,
                                        LAMBDA p : p.fam = last.family))
     /\ \A i \in 1 .. Len(last.calls) : last.calls[i].res = "NotFound")
    => /\ Class(last.allocErr) = "ResourceExhausted"
       /\ Class(last.err) = "ResourceExhausted"
       /\ last.acquired = NoIP
       /\ ipam = last.pre.ipam

\* C20: a Create that returns an error without having called Store.Create
\* leaves the allocator's acquired addresses as they were.
C20_OnlyFailedPersistLeaks ==
    (last.op = "Create" /\ last.err # NoErr /\ last.writes = 0)
    => ipam = last.pre.ipam

====
